---- MODULE Spec2Model ----
(***************************************************************************)
(* A model of route53-subjack (src/route53-subjack/main.go): the scan of   *)
(* the public hosted zones of one or more AWS profiles for CNAME records   *)
(* that point to a claimable third-party service.                          *)
(*                                                                         *)
(* The file holds two variants of the tool.  The "sequential" variant      *)
(* (lines 25-138) calls checkHostedZone synchronously for each zone; the   *)
(* "concurrent" variant (lines 354-471) launches one goroutine per public  *)
(* zone on the WaitGroup wg.  Both launch one goroutine per CNAME record   *)
(* on the WaitGroup wg2.  The variable variant selects the one that runs.  *)
(*                                                                         *)
(* Route 53 and the subjack fingerprint lookup are the environment: they   *)
(* are modelled at the call sites by what the calls return.                *)
(*                                                                         *)
(* The last part models the IAM scanner (src/unnamed/part_000), a single   *)
(* process that checks the console login and the access keys of the users  *)
(* of each profile; it runs under its own specification, SpecIAM.          *)
(***************************************************************************)
EXTENDS Integers, Sequences, FiniteSets, Bags, TLC

(***************************************************************************)
(* Bounds of the model.                                                    *)
(***************************************************************************)
\* The longest -profiles list.
MaxProfiles == 2
\* Zones per ListHostedZones response (MaxItems of the provider, scaled).
ZonePageSize == 2
\* Record sets per ListResourceRecordSets response (scaled).
RecPageSize == 2
\* ListResourceRecordSets calls one listRecordSets run may make before the
\* model stops following it (a run that needs more never leaves its loop).
MaxFetch == 4

(***************************************************************************)
(* Strings: strings.TrimSuffix, strings.ToLower, strings.Contains.         *)
(***************************************************************************)
TrimSuffix(s, suffix) ==
    IF Len(s) >= Len(suffix)
       /\ SubSeq(s, Len(s) - Len(suffix) + 1, Len(s)) = suffix
    THEN SubSeq(s, 1, Len(s) - Len(suffix))
    ELSE s

Upper == "ABCDEFGHIJKLMNOPQRSTUVWXYZ"
Lower == "abcdefghijklmnopqrstuvwxyz"

LowerChar(c) ==
    IF \E i \in 1..Len(Upper) : SubSeq(Upper, i, i) = c
    THEN LET i == CHOOSE k \in 1..Len(Upper) : SubSeq(Upper, k, k) = c
         IN  SubSeq(Lower, i, i)
    ELSE c

RECURSIVE ToLower(_)
ToLower(s) ==
    IF Len(s) = 0 THEN s
    ELSE LowerChar(SubSeq(s, 1, 1)) \o ToLower(SubSeq(s, 2, Len(s)))

Contains(s, sub) ==
    \E i \in 1..(Len(s) + 1) :
        /\ i + Len(sub) - 1 <= Len(s)
        /\ SubSeq(s, i, i + Len(sub) - 1) = sub

(***************************************************************************)
(* The environment: the Route 53 accounts behind the profiles, and DNS.    *)
(***************************************************************************)
\* A record set: Name, Type, SetIdentifier ("" when the record has no
\* routing policy) and the target of the alias.
Rec(name, type, id, target) ==
    [Name |-> name, Type |-> type, SetIdentifier |-> id, Target |-> target]

\* A hosted zone as ListHostedZones returns it.
Zone(id, name, private) == [Id |-> id, Name |-> name, PrivateZone |-> private]

ZoneIds == {"Z1", "Z2", "Z3", "Z4", "Z5", "Z6"}

\* The record sets of each zone, in the provider's listing order (by name,
\* then type, then set identifier).
Route53Records(zoneId) ==
    CASE zoneId = "Z1" ->
           << Rec("example.com.", "A", "", "192.0.2.1"),
              Rec("app.example.com.", "CNAME", "", "x.herokudns.com"),
              Rec("www.example.com.", "CNAME", "", "lb.internal.example.net") >>
      [] zoneId = "Z2" ->
           << Rec("db.corp.internal.", "CNAME", "", "old.herokudns.com") >>
      [] zoneId = "Z3" ->
           << Rec("shop.io.", "A", "", "192.0.2.3"),
              Rec("cdn.shop.io.", "CNAME", "blue", "shop.herokudns.com"),
              Rec("cdn.shop.io.", "CNAME", "green", "shop.herokudns.com") >>
      [] zoneId = "Z4" ->
           << Rec("lb.big.net.", "CNAME", "w1", "a.elb.example.net"),
              Rec("lb.big.net.", "CNAME", "w2", "b.elb.example.net"),
              Rec("lb.big.net.", "CNAME", "w3", "c.elb.example.net") >>
      [] zoneId = "Z5" ->
           << Rec("x.late.org.", "CNAME", "", "late.herokudns.com") >>
      [] zoneId = "Z6" ->
           << Rec("blog.mail.io.", "CNAME", "", "mail.github.io") >>

AccountIds == {"prod", "shop", "big"}

\* The hosted zones of each account, in the provider's listing order.
Route53Zones(account) ==
    CASE account = "prod" ->
           << Zone("Z2", "corp.internal.", TRUE),
              Zone("Z1", "example.com.", FALSE),
              Zone("Z5", "late.org.", FALSE) >>
      [] account = "shop" ->
           << Zone("Z3", "shop.io.", FALSE),
              Zone("Z6", "mail.io.", FALSE) >>
      [] account = "big" ->
           << Zone("Z4", "big.net.", FALSE) >>

AllRecords == UNION { { Route53Records(z)[i] : i \in 1..Len(Route53Records(z)) } : z \in ZoneIds }

\* ./fingerprints.json: service names with the CNAME pattern of each.
Fingerprints == << [service |-> "Heroku", cname |-> "herokudns.com"],
                   [service |-> "Github", cname |-> "github.io"] >>

\* What the name resolves to (a trailing dot does not change the lookup).
Resolve(host) ==
    LET hits == { r \in AllRecords : TrimSuffix(r.Name, ".") = TrimSuffix(host, ".") }
    IN  IF hits = {} THEN "" ELSE (CHOOSE r \in hits : TRUE).Target

\* subjack.Identify when its lookups answer: the service of the first
\* fingerprint that matches the host's CNAME, "" when none does.
Identify(host, fingerprints) ==
    LET target == Resolve(host)
        hits   == { i \in 1..Len(fingerprints) : Contains(target, fingerprints[i].cname) }
    IN  IF hits = {} THEN ""
        ELSE fingerprints[CHOOSE i \in hits : \A k \in hits : i <= k].service

Min(a, b) == IF a <= b THEN a ELSE b

\* route53.ListHostedZones with an empty input: the first page of the
\* account's zones and whether more remain.
ListHostedZonesOutput(account) ==
    LET zs == Route53Zones(account)
    IN  [HostedZones |-> SubSeq(zs, 1, Min(ZonePageSize, Len(zs))),
         IsTruncated |-> Len(zs) > ZonePageSize]

\* A ListResourceRecordSetsInput's start fields; "" is a field left unset.
StartAt(name, type, id) ==
    [StartRecordName |-> name, StartRecordType |-> type, StartRecordIdentifier |-> id]

\* Where a listing starts: at the first record set of the zone when no name
\* is given, else at the first record set at or after the given name (and
\* type, and identifier, for the fields that are given).
StartIndex(recs, input) ==
    IF input.StartRecordName = "" THEN 1
    ELSE LET at == { i \in 1..Len(recs) :
                       /\ recs[i].Name = input.StartRecordName
                       /\ input.StartRecordType \in {"", recs[i].Type}
                       /\ input.StartRecordIdentifier \in {"", recs[i].SetIdentifier} }
         IN  IF at = {} THEN Len(recs) + 1
             ELSE CHOOSE i \in at : \A k \in at : i <= k

\* route53.ListResourceRecordSets: one page from the start, whether the
\* listing is truncated and, when it is, the next record set's name, type
\* and identifier.
ListResourceRecordSetsOutput(zoneId, input) ==
    LET recs  == Route53Records(zoneId)
        first == StartIndex(recs, input)
        last  == Min(first + RecPageSize - 1, Len(recs))
        more  == last < Len(recs)
    IN  [ResourceRecordSets   |-> SubSeq(recs, first, last),
         IsTruncated          |-> more,
         NextRecordName       |-> IF more THEN recs[last + 1].Name ELSE "",
         NextRecordType       |-> IF more THEN recs[last + 1].Type ELSE "",
         NextRecordIdentifier |-> IF more THEN recs[last + 1].SetIdentifier ELSE ""]

NoResult ==
    [ResourceRecordSets |-> << >>, IsTruncated |-> FALSE, NextRecordName |-> "",
     NextRecordType |-> "", NextRecordIdentifier |-> ""]

(***************************************************************************)
(* The program.                                                            *)
(***************************************************************************)
VARIABLES
    variant,            \* which main.go runs: "sequential" or "concurrent"
    verbose,            \* the -verbose flag
    profiles,           \* the -profiles list: the account behind each profile
    cur,                \* main's position in profiles
    mainPc,             \* where the main goroutine is
    exitCode,           \* the process's exit status, once it has ended
    hostedZones,        \* checkSubdomainTakeovers: the zones listed
    zi,                 \* checkSubdomainTakeovers: position in hostedZones
    wg,                 \* checkSubdomainTakeovers: the zone WaitGroup's counter
    zpc,                \* per zone: where its checkHostedZone is
    result,             \* listRecordSets: the last response
    recordSets,         \* listRecordSets: the record sets fetched so far
    fileterdRecordSets, \* listRecordSets: what it returned to checkHostedZone
    inputs,             \* per zone: the listing requests made, with the cursor
                        \* the previous response gave and the page start
    listErr,            \* per zone: listRecordSets returned an error
    zj,                 \* checkHostedZone: position in recordSets
    wg2,                \* checkHostedZone: the record WaitGroup's counter
    units,              \* per zone: the checkRecordSet goroutines launched
    enumErr,            \* listHostedZones returned an error (this profile)
    log,                \* the log stream: the bag of the entries emitted
                        \* since the scan of the current profile began
    iam                 \* the IAM scanner (src/unnamed/part_000): its flags,
                        \* where it is, its locals and the calls it has made

vars == << variant, verbose, profiles, cur, mainPc, exitCode, hostedZones, zi, wg,
           zpc, result, recordSets, fileterdRecordSets, inputs, listErr, zj, wg2,
           units, enumErr, log, iam >>

mainVars == << cur, mainPc, exitCode, hostedZones, zi, enumErr >>
listVars == << result, recordSets, fileterdRecordSets, inputs, listErr >>
flags    == << variant, verbose, profiles >>

Variants == {"sequential", "concurrent"}

\* The -profiles lists: 1..MaxProfiles profiles, each naming an account.
ProfileLists ==
    UNION { [1..n -> AccountIds] : n \in 1..MaxProfiles }

\* A log entry: its level, what it says (kind, subdomain, service) and, as
\* history, the zone whose record it is about.
Entry(level, kind, subdomain, service, zone) ==
    [level |-> level, kind |-> kind, subdomain |-> subdomain,
     service |-> service, zone |-> zone]

\* The slip of an emission that is lost when the stream already holds an
\* equal entry.
EmitOnce(bag, entry) ==
    IF BagIn(entry, bag) THEN bag ELSE bag (+) SetToBag({entry})

\* Writing one entry to the log stream.
Emit(bag, entry) == bag (+) SetToBag({entry})

\* The goroutine state nothing has touched yet.
NoUnits ==
    /\ zpc = [z \in ZoneIds |-> "idle"]
    /\ result = [z \in ZoneIds |-> NoResult]
    /\ recordSets = [z \in ZoneIds |-> << >>]
    /\ fileterdRecordSets = [z \in ZoneIds |-> << >>]
    /\ inputs = [z \in ZoneIds |-> << >>]
    /\ listErr = [z \in ZoneIds |-> FALSE]
    /\ zj = [z \in ZoneIds |-> 1]
    /\ wg2 = [z \in ZoneIds |-> 0]
    /\ units = [z \in ZoneIds |-> << >>]

\* The goroutine state at the start of a checkSubdomainTakeovers call.
FreshUnits ==
    /\ zpc' = [z \in ZoneIds |-> "idle"]
    /\ result' = [z \in ZoneIds |-> NoResult]
    /\ recordSets' = [z \in ZoneIds |-> << >>]
    /\ fileterdRecordSets' = [z \in ZoneIds |-> << >>]
    /\ inputs' = [z \in ZoneIds |-> << >>]
    /\ listErr' = [z \in ZoneIds |-> FALSE]
    /\ zj' = [z \in ZoneIds |-> 1]
    /\ wg2' = [z \in ZoneIds |-> 0]
    /\ units' = [z \in ZoneIds |-> << >>]

Init ==
    /\ variant \in Variants
    /\ verbose \in BOOLEAN
    /\ profiles \in ProfileLists
    /\ cur = 1
    /\ mainPc = "session"
    /\ exitCode = 0
    /\ hostedZones = << >>
    /\ zi = 1
    /\ wg = 0
    /\ enumErr = FALSE
    /\ log = EmptyBag
    /\ NoUnits
    /\ iam = [pc |-> "off"]

(***************************************************************************)
(* checkSubdomainTakeovers and listHostedZones.                            *)
(***************************************************************************)
\* The slip of logging the error without ending the process: the loop over
\* the (nil) zones is next.
OnEnumerationErrorGoOn == "range"

\* Where checkSubdomainTakeovers goes when listHostedZones fails:
\* logrus.Fatal logs and calls os.Exit(1).
OnEnumerationError == "fatal"

\* The slip of not testing PrivateZone.
IsPublicAny(zone) == TRUE

\* The zones the loop does not skip.
IsPublic(zone) == ~zone.PrivateZone

\* The slip of a Wait that does not block.
WaitReturnsAtOnce(counter) == TRUE

\* sync.WaitGroup.Wait returns when the counter is zero.
WaitReturns(counter) == counter = 0

\* The call of listHostedZones at the start of checkSubdomainTakeovers: the
\* one ListHostedZones call, which fails or answers with its first page.
\* The goroutines of the previous profile are gone by now, and what they
\* wrote to the log stream is behind.
ListHostedZones ==
    /\ mainPc = "session"
    /\ FreshUnits
    /\ wg' = 0
    /\ zi' = 1
    /\ log' = EmptyBag
    /\ \E ok \in BOOLEAN :
         IF ok
         THEN /\ hostedZones' = ListHostedZonesOutput(profiles[cur]).HostedZones
              /\ mainPc' = "range"
              /\ UNCHANGED << enumErr, exitCode >>
         ELSE /\ hostedZones' = << >>
              /\ enumErr' = TRUE
              /\ mainPc' = OnEnumerationError
              /\ exitCode' = IF OnEnumerationError = "fatal" THEN 1 ELSE exitCode
    /\ UNCHANGED << iam, flags, cur >>

\* The loop over hostedZones, at a private zone: nothing is done for it.
SkipPrivateZone ==
    /\ mainPc = "range"
    /\ zi <= Len(hostedZones)
    /\ ~IsPublic(hostedZones[zi])
    /\ zi' = zi + 1
    /\ UNCHANGED << iam, flags, cur, mainPc, exitCode, hostedZones, enumErr, wg, zpc,
                    listVars, zj, wg2, units, log >>

\* The loop over hostedZones, at a public zone.  Concurrent: wg.Add(1) and
\* go checkHostedZone.  Sequential: the zone's name is logged and
\* checkHostedZone is called; the loop goes on when it returns.
LaunchZone ==
    /\ mainPc = "range"
    /\ zi <= Len(hostedZones)
    /\ IsPublic(hostedZones[zi])
    /\ LET zone == hostedZones[zi]
       IN  /\ zpc' = [zpc EXCEPT ![zone.Id] = "list"]
           /\ IF variant = "concurrent"
              THEN /\ wg' = wg + 1
                   /\ UNCHANGED << mainPc, log >>
              ELSE /\ mainPc' = "call"
                   /\ log' = Emit(log, Entry("info", "zone", zone.Name, "", zone.Id))
                   /\ UNCHANGED wg
    /\ zi' = zi + 1
    /\ UNCHANGED << iam, flags, cur, exitCode, hostedZones, enumErr,
                    listVars, zj, wg2, units >>

\* The end of the loop over hostedZones: the concurrent variant goes to
\* wg.Wait(), the sequential one returns to main.
RangeEnd ==
    /\ mainPc = "range"
    /\ zi > Len(hostedZones)
    /\ mainPc' = IF variant = "concurrent" THEN "wait" ELSE "returned"
    /\ UNCHANGED << iam, flags, cur, exitCode, hostedZones, zi, enumErr, wg, zpc,
                    listVars, zj, wg2, units, log >>

\* wg.Wait() returns and checkSubdomainTakeovers with it.
WgWait ==
    /\ mainPc = "wait"
    /\ WaitReturns(wg)
    /\ mainPc' = "returned"
    /\ UNCHANGED << iam, flags, cur, exitCode, hostedZones, zi, enumErr, wg, zpc,
                    listVars, zj, wg2, units, log >>

\* main's loop over the profiles: the next profile, or the end of main.
NextProfile ==
    /\ mainPc = "returned"
    /\ IF cur < Len(profiles)
       THEN /\ cur' = cur + 1
            /\ mainPc' = "session"
            /\ enumErr' = FALSE
       ELSE /\ mainPc' = "exit"
            /\ UNCHANGED << cur, enumErr >>
    /\ UNCHANGED << iam, flags, exitCode, hostedZones, zi, wg, zpc,
                    listVars, zj, wg2, units, log >>

(***************************************************************************)
(* listRecordSets, run by checkHostedZone.                                 *)
(***************************************************************************)
\* The full continuation of a response: every Next field it carries.
Cursor(res) ==
    StartAt(res.NextRecordName, res.NextRecordType, res.NextRecordIdentifier)

\* The input of a follow-up request: HostedZoneId and StartRecordName, set
\* from the previous response's NextRecordName.
NextInput(res) == StartAt(res.NextRecordName, "", "")

\* The slip of a filter that keeps every type.
KeepRecordAny(record) == TRUE

\* The record sets the final loop of listRecordSets keeps.
KeepRecord(record) == record.Type = "CNAME"

FilterCNAME(sets) == SelectSeq(sets, KeepRecord)

\* The slip of returning the pages fetched before the failure.
OnListErrorKeepFetched(sets) == FilterCNAME(sets)

\* What checkHostedZone gets when a listing call fails: listRecordSets
\* returns nil and the error, and checkHostedZone drops the error.
OnListError(sets) == << >>

\* One entry of the requests made: the input sent, the continuation the
\* previous response gave, and the position in the zone the page starts at.
Request(zoneId, input, prev) ==
    [input |-> input, prev |-> prev,
     first |-> StartIndex(Route53Records(zoneId), input)]

\* One ListResourceRecordSets call of zone z with the given input, and what
\* listRecordSets does with its outcome: on an error it returns; on a
\* response it appends the page and, when the response is not truncated,
\* filters and returns.
Fetch(z, input) ==
    /\ inputs' = [inputs EXCEPT ![z] = Append(@, Request(z, input, Cursor(result[z])))]
    /\ \E ok \in BOOLEAN :
         IF ok
         THEN LET res == ListResourceRecordSetsOutput(z, input)
                  all == recordSets[z] \o res.ResourceRecordSets
              IN  /\ result' = [result EXCEPT ![z] = res]
                  /\ recordSets' = [recordSets EXCEPT ![z] = all]
                  /\ IF res.IsTruncated
                     THEN /\ zpc' = [zpc EXCEPT ![z] = "more"]
                          /\ UNCHANGED fileterdRecordSets
                     ELSE /\ zpc' = [zpc EXCEPT ![z] = "spawn"]
                          /\ fileterdRecordSets' =
                                [fileterdRecordSets EXCEPT ![z] = FilterCNAME(all)]
                  /\ UNCHANGED listErr
         ELSE /\ listErr' = [listErr EXCEPT ![z] = TRUE]
              /\ fileterdRecordSets' =
                    [fileterdRecordSets EXCEPT ![z] = OnListError(recordSets[z])]
              /\ zpc' = [zpc EXCEPT ![z] = "spawn"]
              /\ UNCHANGED << result, recordSets >>

\* The first call: HostedZoneId alone.
ListFirstPage(z) ==
    /\ zpc[z] = "list"
    /\ Fetch(z, StartAt("", "", ""))
    /\ UNCHANGED << iam, flags, mainVars, wg, zj, wg2, units, log >>

\* One turn of the loop "for isTruncated".
ListNextPage(z) ==
    /\ zpc[z] = "more"
    /\ Len(inputs[z]) < MaxFetch
    /\ Fetch(z, NextInput(result[z]))
    /\ UNCHANGED << iam, flags, mainVars, wg, zj, wg2, units, log >>

(***************************************************************************)
(* checkHostedZone after the listing, and checkRecordSet.                  *)
(***************************************************************************)
\* A checkRecordSet goroutine: its argument, where it is, what Identify
\* returned and, as history, the record set it was launched for, whether
\* Identify's lookups answered, and the entries it has logged.
Unit(record) ==
    [subdomain |-> record.Name, pc |-> "identify", service |-> "",
     answered |-> FALSE, record |-> record, emitted |-> << >>]

\* One turn of the loop over the record sets: wg2.Add(1), go checkRecordSet.
SpawnRecord(z) ==
    /\ zpc[z] = "spawn"
    /\ zj[z] <= Len(fileterdRecordSets[z])
    /\ wg2' = [wg2 EXCEPT ![z] = @ + 1]
    /\ units' = [units EXCEPT ![z] = Append(@, Unit(fileterdRecordSets[z][zj[z]]))]
    /\ zj' = [zj EXCEPT ![z] = @ + 1]
    /\ UNCHANGED << iam, flags, mainVars, wg, zpc, listVars, log >>

\* The end of the loop: checkHostedZone is at wg2.Wait().
SpawnEnd(z) ==
    /\ zpc[z] = "spawn"
    /\ zj[z] > Len(fileterdRecordSets[z])
    /\ zpc' = [zpc EXCEPT ![z] = "wait"]
    /\ UNCHANGED << iam, flags, mainVars, wg, listVars, zj, wg2, units, log >>

\* wg2.Wait() returns.  Sequential: checkHostedZone returns to the loop of
\* checkSubdomainTakeovers.  Concurrent: wg.Done() is next.
Wg2Wait(z) ==
    /\ zpc[z] = "wait"
    /\ WaitReturns(wg2[z])
    /\ IF variant = "concurrent"
       THEN /\ zpc' = [zpc EXCEPT ![z] = "signal"]
            /\ UNCHANGED mainPc
       ELSE /\ zpc' = [zpc EXCEPT ![z] = "done"]
            /\ mainPc' = "range"
    /\ UNCHANGED << iam, flags, cur, exitCode, hostedZones, zi, enumErr, wg,
                    listVars, zj, wg2, units, log >>

\* wg.Done(), the last statement of the concurrent checkHostedZone.
ZoneDone(z) ==
    /\ zpc[z] = "signal"
    /\ wg' = wg - 1
    /\ zpc' = [zpc EXCEPT ![z] = "done"]
    /\ UNCHANGED << iam, flags, mainVars, listVars, zj, wg2, units, log >>

\* The level of the "is pointing to a vulnerable ... service" entry:
\* log.Warnf in the sequential variant, log.Infof in the concurrent one.
VulnerableLevel == IF variant = "concurrent" THEN "info" ELSE "warning"

\* The subjack.Identify call of checkRecordSet on the trimmed name.  Its
\* lookups answer, or they fail or time out and it returns "".
CallIdentify(z, k) ==
    /\ k \in 1..Len(units[z])
    /\ units[z][k].pc = "identify"
    /\ \E answered \in BOOLEAN :
         LET trimmed == TrimSuffix(units[z][k].subdomain, ".")
             service == IF answered THEN Identify(trimmed, Fingerprints) ELSE ""
         IN  units' = [units EXCEPT ![z][k].pc = "report",
                                    ![z][k].service = service,
                                    ![z][k].answered = answered]
    /\ UNCHANGED << iam, flags, mainVars, wg, zpc, listVars, zj, wg2, log >>

\* What checkRecordSet logs for a service: the vulnerable entry with the
\* trimmed name and the lower-cased service; else, when verbose, the debug
\* entry "<subdomain> is ok" with the name as passed (the record logger's
\* level is Debug); else nothing.
Report(z, subdomain, service) ==
    IF service # ""
    THEN << Entry(VulnerableLevel, "vulnerable",
                  TrimSuffix(subdomain, "."), ToLower(service), z) >>
    ELSE IF verbose
         THEN << Entry("debug", "ok", subdomain, "", z) >>
         ELSE << >>

\* The slip of a checkRecordSet that returns without wg2.Done() on the path
\* that logs nothing.
ReportSkipsDone(z, k) ==
    /\ k \in 1..Len(units[z])
    /\ units[z][k].pc = "report"
    /\ LET out == Report(z, units[z][k].subdomain, units[z][k].service)
       IN  /\ log' = IF out = << >> THEN log ELSE Emit(log, out[1])
           /\ units' = [units EXCEPT ![z][k].pc = "done", ![z][k].emitted = out]
           /\ wg2' = IF out = << >> THEN wg2 ELSE [wg2 EXCEPT ![z] = @ - 1]
    /\ UNCHANGED << iam, flags, mainVars, wg, zpc, listVars, zj >>

\* The rest of checkRecordSet: the log entry, then wg2.Done().
ReportAndDone(z, k) ==
    /\ k \in 1..Len(units[z])
    /\ units[z][k].pc = "report"
    /\ LET out == Report(z, units[z][k].subdomain, units[z][k].service)
       IN  /\ log' = IF out = << >> THEN log ELSE Emit(log, out[1])
           /\ units' = [units EXCEPT ![z][k].pc = "done", ![z][k].emitted = out]
    /\ wg2' = [wg2 EXCEPT ![z] = @ - 1]
    /\ UNCHANGED << iam, flags, mainVars, wg, zpc, listVars, zj >>

Next ==
    \/ ListHostedZones
    \/ SkipPrivateZone
    \/ LaunchZone
    \/ RangeEnd
    \/ WgWait
    \/ NextProfile
    \/ \E z \in ZoneIds : ListFirstPage(z)
    \/ \E z \in ZoneIds : ListNextPage(z)
    \/ \E z \in ZoneIds : SpawnRecord(z)
    \/ \E z \in ZoneIds : SpawnEnd(z)
    \/ \E z \in ZoneIds : Wg2Wait(z)
    \/ \E z \in ZoneIds : ZoneDone(z)
    \/ \E z \in ZoneIds : \E k \in 1..Len(units[z]) : CallIdentify(z, k)
    \/ \E z \in ZoneIds : \E k \in 1..Len(units[z]) : ReportAndDone(z, k)

Spec == Init /\ [][Next]_vars

(***************************************************************************)
(* Properties.                                                             *)
(***************************************************************************)
\* The zones of the account of the profile being scanned.
AccountZones == Route53Zones(profiles[cur])

ZoneOf(id) ==
    CHOOSE zone \in { AccountZones[i] : i \in 1..Len(AccountZones) } : zone.Id = id

AccountZoneIds == { AccountZones[i].Id : i \in 1..Len(AccountZones) }

\* The zones a checkHostedZone was started for.
Launched == { z \in ZoneIds : zpc[z] # "idle" }

\* listRecordSets of zone z has returned.
Listed(z) == zpc[z] \in {"spawn", "wait", "signal", "done"}

Entries == BagToSet(log)

Findings(z) == { e \in Entries : e.zone = z /\ e.kind \in {"vulnerable", "ok"} }

CNAMEsOf(z) ==
    { Route53Records(z)[i] : i \in { n \in 1..Len(Route53Records(z)) :
                                       Route53Records(z)[n].Type = "CNAME" } }

Range(seq) == { seq[i] : i \in 1..Len(seq) }

\* C1: for a hosted zone whose PrivateZone flag is true no record listing
\* is ever started, no checkHostedZone runs, none of its records is passed
\* to subjack.Identify and nothing is logged about it, whatever the
\* verbosity and the interleaving.
C1_PrivateZoneNeverScanned ==
    \A z \in AccountZoneIds :
        ZoneOf(z).PrivateZone =>
            /\ zpc[z] = "idle"
            /\ inputs[z] = << >>
            /\ units[z] = << >>
            /\ \A y \in ZoneIds : \A k \in 1..Len(units[y]) :
                   units[y][k].record \notin Range(Route53Records(z))
            /\ \A e \in Entries : e.zone # z

\* C1's case: a scan that listed a private zone has returned, and it did
\* check the records of a public zone.
C1_Witness ==
    /\ mainPc = "returned"
    /\ \E i \in 1..Len(hostedZones) :
           /\ hostedZones[i].PrivateZone
           /\ \E r \in Range(Route53Records(hostedZones[i].Id)) : r.Type = "CNAME"
    /\ \E z \in ZoneIds : \E k \in 1..Len(units[z]) : units[z][k].pc = "done"

\* C2: every record set a checkRecordSet goroutine was launched for, and so
\* every one handed to subjack.Identify, has type CNAME, and is one that
\* listRecordSets returned after its filter.
C2_OnlyCNAMEDispatched ==
    \A z \in ZoneIds : \A k \in 1..Len(units[z]) :
        /\ units[z][k].record.Type = "CNAME"
        /\ units[z][k].record = fileterdRecordSets[z][k]

\* C2's case: Identify has been called for a record of a zone whose fetched
\* pages held a record of another type.
C2_Witness ==
    \E z \in ZoneIds :
        /\ \E r \in Range(recordSets[z]) : r.Type # "CNAME"
        /\ \E k \in 1..Len(units[z]) : units[z][k].pc = "done"

\* C3: when listRecordSets returns without an error, what it returns is
\* exactly the CNAME record sets of the zone, each once.
C3_PaginationComplete ==
    \A z \in ZoneIds :
        (Listed(z) /\ ~listErr[z]) =>
            /\ Range(fileterdRecordSets[z]) = CNAMEsOf(z)
            /\ Len(fileterdRecordSets[z]) = Cardinality(CNAMEsOf(z))

\* C4: the first listing request carries no cursor, and every follow-up
\* request carries the full continuation of the previous response: the next
\* record name, the next record type and the next record identifier.
C4_FullCursorForwarded ==
    \A z \in ZoneIds : \A n \in 1..Len(inputs[z]) :
        IF n = 1
        THEN inputs[z][n].input = StartAt("", "", "")
        ELSE inputs[z][n].input = inputs[z][n].prev

\* C5: listRecordSets never requests a page it has already fetched: no two
\* of its requests start at the same record set of the zone.
C5_NoPageFetchedTwice ==
    \A z \in ZoneIds : \A m, n \in 1..Len(inputs[z]) :
        m # n => inputs[z][m].first # inputs[z][n].first

\* C6: when checkSubdomainTakeovers has returned, every checkHostedZone it
\* launched has finished, every checkRecordSet launched by any of them has
\* finished, and every public zone it listed was launched.
C6_TwoLevelJoin ==
    mainPc \in {"returned", "exit"} =>
        /\ \A z \in ZoneIds :
               /\ zpc[z] \in {"idle", "done"}
               /\ \A k \in 1..Len(units[z]) : units[z][k].pc = "done"
               /\ Listed(z) => Len(units[z]) = Len(fileterdRecordSets[z])
        /\ \A i \in 1..Len(hostedZones) :
               IsPublic(hostedZones[i]) => zpc[hostedZones[i].Id] = "done"

\* C6's case: the concurrent scan has returned after two zone goroutines,
\* each with record goroutines of its own.
C6_Witness ==
    /\ mainPc = "returned"
    /\ variant = "concurrent"
    /\ \E y, z \in ZoneIds :
           /\ y # z
           /\ zpc[y] = "done" /\ units[y] # << >>
           /\ zpc[z] = "done" /\ units[z] # << >>

\* C7: a zone whose record listing failed, on the first page or a later
\* one, has no record checked and no finding logged; the failure does not
\* end the process; and when the scan returns, every zone whose listing did
\* not fail has had each of its CNAME records checked to the end, with the
\* vulnerable entry logged for each service Identify named.
C7_ListingFailureContained ==
    /\ \A z \in ZoneIds :
           listErr[z] => (units[z] = << >> /\ Findings(z) = {})
    /\ (mainPc = "fatal" \/ exitCode # 0) => enumErr
    /\ mainPc = "returned" =>
           \A z \in Launched :
               /\ zpc[z] = "done"
               /\ ~listErr[z] =>
                     /\ \A r \in CNAMEsOf(z) :
                            \E k \in 1..Len(units[z]) : units[z][k].record = r
                     /\ \A k \in 1..Len(units[z]) :
                            /\ units[z][k].pc = "done"
                            /\ units[z][k].service # "" =>
                                   \E e \in Findings(z) :
                                       /\ units[z][k].emitted = << e >>
                                       /\ e.kind = "vulnerable"

\* C7's case: the scan has returned; one zone's listing failed on a later
\* page, and a sibling zone's vulnerable finding is in the log.
C7_Witness ==
    /\ mainPc = "returned"
    /\ \E y, z \in ZoneIds :
           /\ y # z
           /\ listErr[y] /\ Len(inputs[y]) > 1 /\ recordSets[y] # << >>
           /\ ~listErr[z] /\ zpc[z] = "done"
           /\ \E e \in Findings(z) : e.kind = "vulnerable"

\* C8: for every checked record: if Identify named a service, the record's
\* check emitted one warning-level entry naming the subdomain and the
\* service, whatever the verbose flag; if it named none, the check emitted
\* nothing when verbose is false and one debug-level "ok" entry for the
\* subdomain when verbose is true.
C8_ReporterVerbosity ==
    \A z \in ZoneIds : \A k \in 1..Len(units[z]) :
        LET unit == units[z][k]
            names(e) == /\ e \in Entries
                        /\ TrimSuffix(e.subdomain, ".") = TrimSuffix(unit.subdomain, ".")
        IN  unit.pc = "done" =>
                IF unit.service # ""
                THEN /\ Len(unit.emitted) = 1
                     /\ names(unit.emitted[1])
                     /\ unit.emitted[1].level = "warning"
                     /\ unit.emitted[1].kind = "vulnerable"
                     /\ unit.emitted[1].service = ToLower(unit.service)
                ELSE IF verbose
                     THEN /\ Len(unit.emitted) = 1
                          /\ names(unit.emitted[1])
                          /\ unit.emitted[1].level = "debug"
                          /\ unit.emitted[1].kind = "ok"
                     ELSE unit.emitted = << >>

\* C9: when the scan of a profile returns, the zones scanned are exactly
\* the zones of the account that are not private.
C9_AllPublicZonesScanned ==
    mainPc = "returned" =>
        Launched = { z \in AccountZoneIds : ~ZoneOf(z).PrivateZone }

\* C10: when listHostedZones fails, the process is ended with a non-zero
\* exit status and nothing was started for the profile: no checkHostedZone,
\* no record listing, no checkRecordSet, no log entry; and the process ends
\* this way for no other reason.
C10_EnumerationErrorAborts ==
    /\ enumErr =>
           /\ mainPc = "fatal"
           /\ exitCode # 0
           /\ Launched = {}
           /\ wg = 0
           /\ \A z \in ZoneIds : inputs[z] = << >> /\ units[z] = << >>
           /\ log = EmptyBag
    /\ mainPc = "fatal" => enumErr

\* C10's case: the zone listing of the second profile has failed, after
\* the first profile was scanned.
C10_Witness ==
    /\ enumErr
    /\ cur = 2
    /\ mainPc = "fatal"

\* C11: a zone whose record listing failed has a failure entry in the log,
\* so that its output differs from that of a zone scanned and found clean.
C11_ListingFailureLogged ==
    \A z \in ZoneIds :
        listErr[z] => \E e \in Entries : e.zone = z /\ e.kind = "failure"

\* What listRecordSets returns for zone z when every call answers, computed
\* as its loop computes it, following at most fuel follow-up requests.
RECURSIVE ListAll(_, _, _, _)
ListAll(z, input, fetched, fuel) ==
    LET res == ListResourceRecordSetsOutput(z, input)
        all == fetched \o res.ResourceRecordSets
    IN  IF res.IsTruncated /\ fuel > 0
        THEN ListAll(z, NextInput(res), all, fuel - 1)
        ELSE FilterCNAME(all)

\* The zones of the account that one scan checks.
ScannedZones ==
    { zone.Id : zone \in { x \in Range(ListHostedZonesOutput(profiles[cur]).HostedZones) :
                             IsPublic(x) } }

\* The findings a scan of the account emits when every call answers: for
\* each record set listed, what checkRecordSet reports for it.
ExpectedFinding(z, record) ==
    Report(z, record.Name, Identify(TrimSuffix(record.Name, "."), Fingerprints))

ExpectedCopies(e) ==
    Cardinality({ p \in UNION { { << z, i >> : i \in 1..Len(ListAll(z, StartAt("", "", ""), << >>, MaxFetch)) } :
                                z \in ScannedZones } :
                    ExpectedFinding(p[1], ListAll(p[1], StartAt("", "", ""), << >>, MaxFetch)[p[2]]) = << e >> })

\* Every call of the scan answered: no listing failed, every lookup answered.
AllAnswered ==
    /\ ~enumErr
    /\ \A z \in ZoneIds :
           /\ ~listErr[z]
           /\ \A k \in 1..Len(units[z]) : units[z][k].answered

\* C12: a scan of an account in which every call answers emits, by the time
\* it returns, a multiset of findings fixed by the zones, the records, the
\* fingerprints and the flags alone, whatever the interleaving of the zone
\* and record goroutines: so two such scans emit the same multiset.
C12_FindingsIndependentOfInterleaving ==
    (mainPc = "returned" /\ AllAnswered) =>
        /\ \A z \in ScannedZones : zpc[z] = "done"
        /\ \A e \in Entries :
               e.kind \in {"vulnerable", "ok"} => CopiesIn(e, log) = ExpectedCopies(e)
        /\ \A z \in ScannedZones :
               \A r \in Range(ListAll(z, StartAt("", "", ""), << >>, MaxFetch)) :
                   \A e \in Range(ExpectedFinding(z, r)) :
                       CopiesIn(e, log) = ExpectedCopies(e)

\* C12's case: a concurrent scan in which every call answered has returned
\* with findings of two zones, one of them emitted more than once.
C12_Witness ==
    /\ mainPc = "returned"
    /\ variant = "concurrent"
    /\ AllAnswered
    /\ \E y, z \in ZoneIds : y # z /\ Findings(y) # {} /\ Findings(z) # {}
    /\ \E e \in Entries : CopiesIn(e, log) > 1


\* ---------------------------------------------------------------------------
\* The IAM scanner (src/unnamed/part_000).  One process: for each profile it
\* lists the users, and for each user checks the console login, then each of
\* the user's access keys.  Times are ages in days before `now`; a nil
\* pointer is the empty sequence and a pointer to d is << d >>.
\* ---------------------------------------------------------------------------

DefaultAge == 365

AgeFlags == { 30, DefaultAge }

Ages == { 10, 31, 365, 366 }

Nil == << >>

Ptr(d) == << d >>

IamUser(name, passwordLastUsed) ==
    [ UserName |-> name, PasswordLastUsed |-> passwordLastUsed ]

\* What ListUsers answers in each account.
IamUsers(account) ==
    CASE account = "prod" -> << IamUser("alice", Nil), IamUser("bob", Ptr(400)) >>
      [] account = "shop" -> << IamUser("carol", Ptr(10)) >>
      [] account = "big"  -> << IamUser("dave", Nil) >>

\* What ListAccessKeys answers for each user.
IamAccessKeys(user) ==
    CASE user = "alice" -> << "AK1" >>
      [] user = "bob"   -> << "AK2", "AK3" >>
      [] user = "carol" -> << >>
      [] user = "dave"  -> << "AK4" >>

\* The outcomes of GetLoginProfile: success, the NoSuchEntity error, another
\* AWS error, and an error that is not an awserr.Error.
LoginOutcomes == { "ok", "NoSuchEntity", "awserr", "error" }

\* The outcomes of GetAccessKeyLastUsed: an error, a key never used (a nil
\* LastUsedDate), or a date.
KeyOutcomes ==
    { [ err |-> TRUE, date |-> Nil ], [ err |-> FALSE, date |-> Nil ] }
        \cup { [ err |-> FALSE, date |-> Ptr(d) ] : d \in Ages }

olderThanAge(input, allowedCredentialsAge) == input > allowedCredentialsAge

\* hasLoginProfile: false on NoSuchEntity only; every other outcome that
\* returns falls through to `return true`.
hasLoginProfile(outcome) == outcome # "NoSuchEntity"

\* getAccessKeyLastUsed: nil on an error, else the LastUsedDate.
getAccessKeyLastUsed(outcome) == IF outcome.err THEN Nil ELSE outcome.date

\* The condition under which checkUsersConsoleLoginAge calls
\* deleteUserLoginProfile.
DisableLogin(activeMode, outcome, user) ==
    hasLoginProfile(outcome) /\ user.PasswordLastUsed = Nil /\ activeMode

\* deleteAccessKeys called whatever the mode is.
RemoveKeyAlways(activeMode, lastUsed, allowedCredentialsAge) ==
    \/ lastUsed = Nil
    \/ lastUsed # Nil /\ olderThanAge(lastUsed[1], allowedCredentialsAge)

\* The condition under which checkUsersAccessKeysAge calls deleteAccessKeys.
RemoveKey(activeMode, lastUsed, allowedCredentialsAge) ==
    \/ lastUsed = Nil /\ activeMode
    \/ lastUsed # Nil /\ olderThanAge(lastUsed[1], allowedCredentialsAge)
           /\ activeMode

Call(op, arg) == [ op |-> op, arg |-> arg ]

DeleteOps == { "DeleteLoginProfile", "DeleteAccessKey" }

\* The scanner before main's loop over the profiles.  `calls` is the sequence
\* of the API calls issued so far; `lookups` records, as history, what each
\* usage lookup answered.
IamStart(activeMode, age) ==
    [ pc         |-> "account",
      activeMode |-> activeMode,
      allowedCredentialsAge |-> age,
      p          |-> 1,
      users      |-> << >>,
      ui         |-> 1,
      keys       |-> << >>,
      ki         |-> 1,
      calls      |-> << >>,
      lookups    |-> { } ]

InitIAM ==
    /\ variant = "concurrent"
    /\ verbose = FALSE
    /\ profiles \in ProfileLists
    /\ cur = 1
    /\ mainPc = "session"
    /\ exitCode = 0
    /\ hostedZones = << >>
    /\ zi = 1
    /\ wg = 0
    /\ enumErr = FALSE
    /\ log = EmptyBag
    /\ NoUnits
    /\ \E activeMode \in BOOLEAN : \E age \in AgeFlags :
           iam = IamStart(activeMode, age)

r53Vars ==
    << flags, mainVars, wg, zpc, listVars, zj, wg2, units, log >>

\* checkAccountCredentials: list the users of the profile; a failure is
\* logged and the check goes on over no users.  The calls of one account are
\* recorded from this point on.
checkAccountCredentials ==
    /\ iam.pc = "account"
    /\ \E ok \in BOOLEAN :
           iam' = [ iam EXCEPT
                      !.pc = "user",
                      !.users = IF ok THEN IamUsers(profiles[iam.p]) ELSE << >>,
                      !.ui = 1,
                      !.calls = << Call("ListUsers", profiles[iam.p]) >>,
                      !.lookups = { } ]
    /\ UNCHANGED r53Vars

\* The head of the loop of checkUsersCredentialsAge, with listUserRoles, which
\* only reads and logs.
checkUsersCredentialsAge ==
    /\ iam.pc = "user"
    /\ iam.ui <= Len(iam.users)
    /\ iam' = [ iam EXCEPT
                  !.pc = "login",
                  !.calls = Append(@, Call("ListAttachedUserPolicies",
                                           iam.users[iam.ui].UserName)) ]
    /\ UNCHANGED r53Vars

\* The loop of checkUsersCredentialsAge is over: main goes to the next
\* profile, or returns.
AccountDone ==
    /\ iam.pc = "user"
    /\ iam.ui > Len(iam.users)
    /\ iam' = IF iam.p < Len(profiles)
                 THEN [ iam EXCEPT !.pc = "account", !.p = @ + 1 ]
                 ELSE [ iam EXCEPT !.pc = "exit" ]
    /\ UNCHANGED r53Vars

\* checkUsersConsoleLoginAge with hasLoginProfile and deleteUserLoginProfile.
\* An error that is not an awserr.Error makes hasLoginProfile call a method of
\* a nil interface: the program panics.
checkUsersConsoleLoginAge ==
    /\ iam.pc = "login"
    /\ \E outcome \in LoginOutcomes :
         LET user == iam.users[iam.ui]
             get  == Call("GetLoginProfile", user.UserName)
             del  == Call("DeleteLoginProfile", user.UserName)
             seen == [ kind |-> "login", id |-> user.UserName,
                       failed |-> outcome \in { "awserr", "error" },
                       never |-> user.PasswordLastUsed = Nil,
                       age |-> user.PasswordLastUsed ]
         IN  iam' = IF outcome = "error"
                       THEN [ iam EXCEPT !.pc = "panic",
                                         !.calls = Append(@, get),
                                         !.lookups = @ \cup { seen } ]
                       ELSE [ iam EXCEPT
                                !.pc = "keys",
                                !.calls =
                                    IF DisableLogin(iam.activeMode, outcome, user)
                                       THEN @ \o << get, del >>
                                       ELSE Append(@, get),
                                !.lookups = @ \cup { seen } ]
    /\ UNCHANGED r53Vars

\* The start of checkUsersAccessKeysAge: listUserAccessKeys; a failure is
\* printed and the loop runs over no keys.
listUserAccessKeys ==
    /\ iam.pc = "keys"
    /\ \E ok \in BOOLEAN :
         LET name == iam.users[iam.ui].UserName
         IN  iam' = [ iam EXCEPT
                        !.pc = "key",
                        !.keys = IF ok THEN IamAccessKeys(name) ELSE << >>,
                        !.ki = 1,
                        !.calls = Append(@, Call("ListAccessKeys", name)) ]
    /\ UNCHANGED r53Vars

\* One turn of the loop of checkUsersAccessKeysAge, with getAccessKeyLastUsed
\* and deleteAccessKeys.
checkUsersAccessKeysAge ==
    /\ iam.pc = "key"
    /\ iam.ki <= Len(iam.keys)
    /\ \E outcome \in KeyOutcomes :
         LET key      == iam.keys[iam.ki]
             lastUsed == getAccessKeyLastUsed(outcome)
             get      == Call("GetAccessKeyLastUsed", key)
             del      == Call("DeleteAccessKey", key)
             seen     == [ kind |-> "key", id |-> key,
                           failed |-> outcome.err,
                           never |-> ~outcome.err /\ outcome.date = Nil,
                           age |-> outcome.date ]
         IN  iam' = [ iam EXCEPT
                        !.ki = @ + 1,
                        !.calls =
                            IF RemoveKey(iam.activeMode, lastUsed,
                                         iam.allowedCredentialsAge)
                               THEN @ \o << get, del >>
                               ELSE Append(@, get),
                        !.lookups = @ \cup { seen } ]
    /\ UNCHANGED r53Vars

\* The loop over the keys is over: the next user.
UserDone ==
    /\ iam.pc = "key"
    /\ iam.ki > Len(iam.keys)
    /\ iam' = [ iam EXCEPT !.pc = "user", !.ui = @ + 1 ]
    /\ UNCHANGED r53Vars

NextIAM ==
    \/ checkAccountCredentials
    \/ checkUsersCredentialsAge
    \/ AccountDone
    \/ checkUsersConsoleLoginAge
    \/ listUserAccessKeys
    \/ checkUsersAccessKeysAge
    \/ UserDone

SpecIAM == InitIAM /\ [][NextIAM]_vars

IamCalls == Range(iam.calls)

Deleted(op) == { c.arg : c \in { x \in IamCalls : x.op = op } }

LookupsOf(kind, id) == { l \in iam.lookups : l.kind = kind /\ l.id = id }

\* C13: in a dry run (the -active flag not set) the scanner never issues a
\* DeleteLoginProfile or a DeleteAccessKey call, whatever the users, the keys
\* and the answers of the lookups are.
C13_DryRunDeletesNothing ==
    ~iam.activeMode => \A c \in IamCalls : c.op \notin DeleteOps

\* A dry run has met a login profile never used and a key never used, the two
\* cases in which the active mode deletes.
C13_Witness ==
    /\ ~iam.activeMode
    /\ \E l \in iam.lookups : l.kind = "login" /\ ~l.failed /\ l.never
    /\ \E l \in iam.lookups : l.kind = "key" /\ ~l.failed /\ l.never
    /\ \E l \in iam.lookups :
           /\ l.kind = "key" /\ l.age # Nil
           /\ olderThanAge(l.age[1], iam.allowedCredentialsAge)

\* C14: in active mode, a key is removed only if its lookup answered without
\* error that it was never used or was last used more than the allowed age
\* ago, and a login profile is removed only if its lookup answered without
\* error and the user never logged in.
C14_DeletesFollowRules ==
    iam.activeMode =>
        /\ \A key \in Deleted("DeleteAccessKey") :
               \A l \in LookupsOf("key", key) :
                   /\ ~l.failed
                   /\ \/ l.never
                      \/ l.age # Nil
                           /\ olderThanAge(l.age[1], iam.allowedCredentialsAge)
        /\ \A name \in Deleted("DeleteLoginProfile") :
               \A l \in LookupsOf("login", name) : ~l.failed /\ l.never


\* The record units of zone z are all launched and have all emitted and
\* called wg2.Done.
AllUnitsFinished(z) ==
    /\ Len(units[z]) = Len(fileterdRecordSets[z])
    /\ \A k \in 1..Len(units[z]) : units[z][k].pc = "done"

\* C15: a zone unit passes wg2.Wait, and so signals its completion, only when
\* every record unit it launched has emitted its finding and finished; and
\* once the zone counts as complete no finding of that zone is emitted.
C15_ZoneCompletesAfterItsRecords ==
    [][ \A z \in ZoneIds :
          /\ zpc'[z] \in { "signal", "done" } => AllUnitsFinished(z)'
          /\ (zpc[z] = "done" /\ zpc'[z] = "done") =>
                \A e \in BagToSet(log') :
                    e.zone = z => CopiesIn(e, log') = CopiesIn(e, log) ]_vars

\* A zone with two record units has completed with its findings emitted while
\* a sibling zone unit is still running.
C15_Witness ==
    \E z, y \in ZoneIds :
        /\ variant = "concurrent"
        /\ zpc[z] = "done"
        /\ Len(units[z]) >= 2
        /\ Findings(z) # { }
        /\ zpc[y] \in { "list", "more", "spawn", "wait" }


\* The unit of zone z, or one of its record units, is inside a network call:
\* a ListResourceRecordSets call or an Oracle lookup that has not returned.
InNetworkCall(z) ==
    \/ zpc[z] \in { "list", "more" }
    \/ \E k \in 1..Len(units[z]) : units[z][k].pc = "identify"

\* C16: while a unit is inside a network call, which may never return, every
\* sibling can still go on: the zones not yet reached by the loop over the
\* hosted zones can be launched, a sibling zone unit can make its own calls
\* and launch its records, and a sibling record unit can make its lookup and
\* emit its finding.
C16_SiblingsNotBlocked ==
    \A z \in ZoneIds :
        InNetworkCall(z) =>
            /\ zi <= Len(hostedZones) => ENABLED (LaunchZone \/ SkipPrivateZone)
            /\ \A y \in ZoneIds \ { z } :
                   /\ zpc[y] = "list" => ENABLED ListFirstPage(y)
                   /\ zpc[y] = "spawn" => ENABLED (SpawnRecord(y) \/ SpawnEnd(y))
            /\ \A y \in ZoneIds : \A k \in 1..Len(units[y]) :
                   /\ units[y][k].pc = "identify" => ENABLED CallIdentify(y, k)
                   /\ units[y][k].pc = "report" => ENABLED ReportAndDone(y, k)


\* Fair scheduling: main, the zone units and the record units are goroutines
\* of one Go scheduler and every call returns, so a step that stays possible
\* is eventually taken.  Every behaviour of Spec takes finitely many steps
\* (each action uses up a record, a page, a zone or a profile), so this
\* rules out exactly the behaviours that stop while a step is possible.
FairSpec == Spec /\ WF_vars(Next)

\* C17: under fair scheduling, once the zone listing of a profile has
\* succeeded, the scan of the profile eventually completes: main gets past
\* the loop over the zones and past wg.Wait.
C17_ScanCompletes == (mainPc = "range") ~> (mainPc = "returned")


\* C18: every finding in the log, vulnerable or clean, names its subdomain
\* with the trailing dot removed.
C18_FindingsNameTrimmedSubdomain ==
    \A z \in ZoneIds : \A e \in Findings(z) :
        e.subdomain = TrimSuffix(e.subdomain, ".")


\* C19: a record unit whose Oracle lookup failed has, when it finishes,
\* emitted no finding (neither vulnerable nor "ok", verbose or not) and the
\* log holds a failure entry for its record.
C19_LookupFailureLoggedNoFinding ==
    \A z \in ZoneIds : \A k \in 1..Len(units[z]) :
        (units[z][k].pc = "done" /\ ~units[z][k].answered) =>
            /\ units[z][k].emitted = << >>
            /\ \E e \in Entries :
                   /\ e.kind = "failure"
                   /\ e.zone = z
                   /\ TrimSuffix(e.subdomain, ".")
                          = TrimSuffix(units[z][k].subdomain, ".")


\* The zone units launched on wg that have not called wg.Done: the
\* sequential variant has no outer WaitGroup and launches none.
PendingZones ==
    IF variant = "concurrent"
    THEN { z \in ZoneIds : zpc[z] \in { "list", "more", "spawn", "wait", "signal" } }
    ELSE { }

\* The record units launched on the wg2 of zone z that have not called
\* wg2.Done.
PendingUnits(z) == { k \in 1..Len(units[z]) : units[z][k].pc # "done" }

\* C20: the counter of each WaitGroup is the number of units launched on it
\* that have not called Done, and is never negative; when a Wait can be
\* reached every Add of its WaitGroup has been made (the launching loop is
\* over), and a finished unit has called Done once: it is counted no more.
C20_BarrierAccounting ==
    /\ wg = Cardinality(PendingZones)
    /\ wg >= 0
    /\ mainPc = "wait" => zi > Len(hostedZones)
    /\ \A z \in ZoneIds :
           /\ wg2[z] = Cardinality(PendingUnits(z))
           /\ wg2[z] >= 0
           /\ zpc[z] \in { "wait", "signal", "done" } =>
                  Len(units[z]) = Len(fileterdRecordSets[z])

\* Both counters at work: one zone unit has called wg.Done while another
\* waits on its wg2 with one of its two record units finished.
C20_Witness ==
    \E z, y \in ZoneIds :
        /\ variant = "concurrent"
        /\ zpc[z] = "done"
        /\ zpc[y] = "wait"
        /\ wg = 1
        /\ Len(units[y]) >= 2
        /\ wg2[y] = 1


\* The scan of the current profile has completed: main is past the loop
\* over the zones and past wg.Wait, and no zone unit or record unit is left.
ScanCompleted ==
    /\ mainPc = "returned"
    /\ PendingZones = { }
    /\ \A z \in ZoneIds :
           /\ zpc[z] \in { "idle", "done" }
           /\ PendingUnits(z) = { }

\* C21: main goes from one profile to the next in the list only when the
\* scan of the first has completed; a zone unit or a record unit that
\* starts is one of the profile main is at; and after the zone listing of a
\* profile has failed nothing happens any more: no later profile is scanned.
C21_ProfilesOneAfterAnother ==
    [][ /\ cur' # cur => (cur' = cur + 1 /\ ScanCompleted)
        /\ \A z \in ZoneIds :
               /\ (zpc[z] = "idle" /\ zpc'[z] # "idle") =>
                      /\ cur' = cur
                      /\ z \in AccountZoneIds
                      /\ mainPc = "range"
               /\ Len(units'[z]) > Len(units[z]) =>
                      /\ cur' = cur
                      /\ z \in AccountZoneIds
        /\ ~enumErr ]_vars

\* A zone unit of the second profile has launched record units, the first
\* profile being another account.
C21_Witness ==
    \E z \in ZoneIds :
        /\ variant = "concurrent"
        /\ cur = 2
        /\ profiles[1] # profiles[2]
        /\ z \in AccountZoneIds
        /\ zpc[z] = "spawn"
        /\ Len(units[z]) >= 1

====
